---------------------------- MODULE Spec2Model ----------------------------
(***************************************************************************)
(* The CPL player auction (app.py, import_players.py) as a state machine.  *)
(*                                                                         *)
(* Persistent store: the Player, Team and User tables.  Session state: the *)
(* per-browser Flask session (the logged-in user and the auction flags).   *)
(* One action per HTTP request handler.  A handler that answers with a     *)
(* redirect leaves the target in the session's `pending` field and the     *)
(* browser's next request of that session is the target handler, as a      *)
(* browser follows a redirect before the user can act again.  A flashed    *)
(* message stays in `flash` until a page is rendered.                      *)
(*                                                                         *)
(* A session key that has been popped reads, through every session.get of  *)
(* the code, as its default (False, None, round 1); the session record     *)
(* holds that default for an absent key.                                   *)
(***************************************************************************)
EXTENDS Integers, Sequences, FiniteSets, TLC

VARIABLES
    players,   \* Player table: sequence indexed by Player.id
    teams,     \* Team table: function from Team.id
    users,     \* User table: function from User.id
    sess,      \* browser sessions: function from session id to session record
    flash      \* the latest message flashed and not yet shown ("" if none)

vars == <<players, teams, users, sess, flash>>

-----------------------------------------------------------------------------
(* Bounds of the model *)

\* number of seeded teams kept (the code seeds 8)
NTeams == 2
\* number of non-retained players in the imported file
NAuction == 2
\* the round counter is not raised beyond this
MaxRound == 2
\* user ids are not given out beyond this
MaxUserId == 4

(* Program constants *)

max_slots == 15
InitialPurse == 10000

\* None for an integer column or session key
None == 0

-----------------------------------------------------------------------------
(* Player.status values *)

Unsold == [k |-> "Unsold", n |-> 0]
Sold == [k |-> "Sold", n |-> 0]
Retained == [k |-> "Retained", n |-> 0]
\* f'Round {auction_round} Unsold'
RoundUnsold(r) == [k |-> "Round Unsold", n |-> r]

-----------------------------------------------------------------------------
(* Seeding *)

TeamNames ==
    <<"Puthiya Sirakukal", "APJ Tamizhan Youngstars", "Mighty Cricket Club",
      "SPARTAN ROCKERZ", "Crazy-11", "Jolly Players", "Dada Warriors",
      "Thunder Strikers">>

TeamIds == 1..NTeams

\* the Team rows as seeded, before any aggregate is computed
SeedTeams ==
    [t \in TeamIds |->
        [team_name |-> TeamNames[t], purse |-> InitialPurse, purse_spent |-> 0,
         slots_remaining |-> max_slots, players_taken_count |-> 0]]

\* the seeded Super Admin, and an Admin and a Captain created through
\* create_user by the Super Admin
SeedUsers ==
    <<[username |-> "superadmin", role |-> "Super Admin", password |-> "admin123", team_id |-> None],
      [username |-> "admin", role |-> "Admin", password |-> "adminpw", team_id |-> None],
      [username |-> "captain", role |-> "Captain", password |-> "cappw", team_id |-> 1]>>

-----------------------------------------------------------------------------
(* Team aggregates from retained players *)

RECURSIVE SumPrices(_, _)
SumPrices(tbl, ids) ==
    IF ids = {} THEN 0
    ELSE LET p == CHOOSE x \in ids : TRUE
         IN tbl[p].sold_price + SumPrices(tbl, ids \ {p})

\* Player.query.filter_by(team_id=team.id, is_retained=True)
RetainedOf(tbl, t) ==
    {p \in DOMAIN tbl : tbl[p].team_id = t /\ tbl[p].is_retained}

\* faulty variant of RetainedStats: the retained cost is taken off the purse
\* the team has now, not off the budget
RetainedStatsOffCurrent(team, tbl, t) ==
    LET retained_players == RetainedOf(tbl, t)
        retained_count == Cardinality(retained_players)
        retained_cost == SumPrices(tbl, retained_players)
    IN [team EXCEPT !.players_taken_count = retained_count,
                    !.slots_remaining = max_slots - retained_count,
                    !.purse_spent = retained_cost,
                    !.purse = @ - retained_cost]

\* the four aggregate fields of one team, from its retained players only
RetainedStats(team, tbl, t) ==
    LET retained_players == RetainedOf(tbl, t)
        retained_count == Cardinality(retained_players)
        retained_cost == SumPrices(tbl, retained_players)
    IN [team EXCEPT !.players_taken_count = retained_count,
                    !.slots_remaining = max_slots - retained_count,
                    !.purse_spent = retained_cost,
                    !.purse = InitialPurse - retained_cost]

recalculate_initial_team_stats(teamTbl, tbl) ==
    [t \in DOMAIN teamTbl |-> RetainedStats(teamTbl[t], tbl, t)]

-----------------------------------------------------------------------------
(* Import of the player file *)

\* str(is_retained_val).strip().upper() in ['TRUE', '1', 'YES', 'T']
TruthyFlag(v) == v \in {"TRUE", "1", "YES", "T"}

\* teams_map: team name -> id (0 when the name is no team's)
TeamsMap(teamTbl, name) ==
    IF \E t \in DOMAIN teamTbl : teamTbl[t].team_name = name
    THEN CHOOSE t \in DOMAIN teamTbl : teamTbl[t].team_name = name
    ELSE None

\* Player.query.filter_by(player_name=...).first(): the id, or None
FindPlayer(tbl, name) ==
    IF \E p \in DOMAIN tbl : tbl[p].player_name = name
    THEN CHOOSE p \in DOMAIN tbl :
            /\ tbl[p].player_name = name
            /\ \A q \in DOMAIN tbl : tbl[q].player_name = name => p <= q
    ELSE None

\* one row of the file applied to the Player table
ImportRow(tbl, teamTbl, row) ==
    LET flagged == TruthyFlag(row.is_retained)
        named == row.retaining_team_name # ""
        found == TeamsMap(teamTbl, row.retaining_team_name)
        team_id == IF flagged /\ named THEN found ELSE None
        is_retained == IF flagged /\ named /\ found = None THEN FALSE ELSE flagged
        price == IF is_retained THEN row.last_year_price ELSE 0
        p == FindPlayer(tbl, row.player_name)
    IN IF p = None
       THEN Append(tbl, [player_name |-> row.player_name,
                         is_retained |-> is_retained,
                         team_id |-> team_id,
                         sold_price |-> price,
                         status |-> IF is_retained THEN Retained ELSE Unsold])
       ELSE [tbl EXCEPT ![p] =
                [@ EXCEPT !.is_retained = is_retained,
                          !.team_id = team_id,
                          !.sold_price = price,
                          !.status = IF is_retained /\ @ # Sold THEN Retained
                                     ELSE IF ~is_retained /\ @ = Retained THEN Unsold
                                     ELSE @]]

RECURSIVE ImportRows(_, _, _, _)
ImportRows(tbl, teamTbl, rows, i) ==
    IF i > Len(rows) THEN tbl
    ELSE ImportRows(ImportRow(tbl, teamTbl, rows[i]), teamTbl, rows, i + 1)

import_players_from_csv(tbl, teamTbl, rows) == ImportRows(tbl, teamTbl, rows, 1)

-----------------------------------------------------------------------------
(* The imported file: team 1 retains 12 players costing 5000 in all, team 2 *)
(* retains 14 players costing 1000, 1500 and nothing, and NAuction players  *)
(* go to the auction.                                                       *)

Row(name, flag, team, price) ==
    [player_name |-> name, is_retained |-> flag,
     retaining_team_name |-> team, last_year_price |-> price]

\* team 1 is left three free slots, team 2 one
NRetained1 == max_slots - 3
NRetained2 == max_slots - 1

CsvFile ==
    [i \in 1..NRetained1 |->
        Row(i, "TRUE", TeamNames[1], IF i = 1 THEN 5000 ELSE 0)]
    \o [i \in 1..NRetained2 |->
        Row(NRetained1 + i, "YES", TeamNames[2],
            IF i = 1 THEN 1000 ELSE IF i = 2 THEN 1500 ELSE 0)]
    \o [i \in 1..NAuction |->
        Row(NRetained1 + NRetained2 + i, "FALSE", "", 700)]

-----------------------------------------------------------------------------
(* Sessions *)

\* the browser sessions in use
SessionIds == DOMAIN sess

\* a session with no key set; download holds the rows of the file the
\* browser last received from the export route (none yet)
NewSession ==
    [user_id |-> None, auction_started |-> FALSE, current_player_id |-> None,
     auction_round |-> 1, round_complete |-> FALSE, auction_complete |-> FALSE,
     auction_paused |-> FALSE, pending |-> "none", download |-> <<>>]

\* the six session.pop calls of logout and restart_auction
PopAuctionKeys(sr) ==
    [sr EXCEPT !.auction_started = FALSE, !.current_player_id = None,
               !.auction_round = 1, !.round_complete = FALSE,
               !.auction_complete = FALSE, !.auction_paused = FALSE]

\* the auction keys of a session
AuctionFlags(sr) ==
    <<sr.auction_started, sr.current_player_id, sr.auction_round,
      sr.round_complete, sr.auction_complete, sr.auction_paused>>

\* current_user.is_authenticated: the session names a user that still exists
Authenticated(s) == sess[s].user_id \in DOMAIN users

CurrentRole(s) == users[sess[s].user_id].role

\* faulty variant of RoleAllowed: every logged-in user passes
RoleAllowedAny(role, role_names) == TRUE

\* the test of role_required
RoleAllowed(role, role_names) == role = "Super Admin" \/ role \in role_names

\* User.check_password
CheckPassword(u, password) == password = users[u].password

\* `not password`: a missing field or an empty one
Missing == "<missing>"
Falsy(password) == password \in {Missing, ""}

\* the passwords a confirmation is tried with
PasswordInputs == {Missing, "wrong", "admin123", "adminpw"}

\* the credentials a login is tried with: every user's own, a wrong
\* password, a missing one and an unknown username
LoginInputs ==
    {<<SeedUsers[u].username, SeedUsers[u].password>> : u \in DOMAIN SeedUsers}
    \cup {<<"superadmin", "wrong">>, <<"admin", Missing>>, <<"nobody", "admin123">>}

-----------------------------------------------------------------------------
(* Responses *)

\* the handler flashes msg and answers with a redirect to target ("page" for
\* a page that changes nothing: dashboard, login, home, teams); nothing else
\* changes
Redirect(s, msg, target) ==
    /\ flash' = msg
    /\ sess' = [sess EXCEPT ![s].pending = target]
    /\ UNCHANGED <<players, teams, users>>

\* the handler renders its page, which shows the flashed message and so
\* removes it; nothing else changes
Render(s) ==
    /\ sess' = [sess EXCEPT ![s].pending = "none"]
    /\ flash' = ""
    /\ UNCHANGED <<players, teams, users>>

\* get_or_404 aborts the request
NotFound(s) == UNCHANGED vars

\* login_required and role_required: the handler body runs only for a
\* logged-in user of an allowed role
Guarded(s, role_names, body) ==
    IF ~Authenticated(s) THEN Redirect(s, "You must be logged in to view this page.", "page")
    ELSE IF ~RoleAllowed(CurrentRole(s), role_names)
         THEN Redirect(s, "You do not have permission to access this page.", "page")
         ELSE body

\* the request is one the browser can make now: any, or the pending redirect
CanRequest(s, route) == sess[s].pending \in {"none", route}

-----------------------------------------------------------------------------
(* Player queries *)

PlayerIds == DOMAIN players

\* faulty variant of AuctionPlayersWith: the status is not filtered on
AuctionPlayersAnyStatus(st) ==
    {p \in PlayerIds : ~players[p].is_retained}

AuctionPlayersNotSold(st) ==
    {p \in PlayerIds : players[p].status.k # "Sold" /\ ~players[p].is_retained}

\* Player.query.filter_by(status=st, is_retained=False)
AuctionPlayersWith(st) ==
    {p \in PlayerIds : players[p].status = st /\ ~players[p].is_retained}

-----------------------------------------------------------------------------
(* Form fields *)

\* request.form.get(...): absent, a text that is no integer, or an integer
NoField == [kind |-> "missing", val |-> 0]
TextField == [kind |-> "text", val |-> 0]
IntField(v) == [kind |-> "int", val |-> v]

\* int(...) raises TypeError on None and ValueError on other text
ParsesAsInt(f) == f.kind = "int"

\* the prices a sale is tried with
PriceInputs == {-500, 800, 6000}

\* the forms a sale is tried with: every team at every price, a team id
\* that is no team's, a missing team field and a price that is no number
SellForms ==
    [team_id : {IntField(t) : t \in TeamIds}, sold_price : {IntField(v) : v \in PriceInputs}]
    \cup {[team_id |-> IntField(NTeams + 1), sold_price |-> IntField(800)],
          [team_id |-> NoField, sold_price |-> IntField(800)],
          [team_id |-> IntField(1), sold_price |-> TextField]}

\* the player ids a sale or pass is tried with: a retained player, the
\* auction players, and an id that is no player's
PlayerIdInputs ==
    {1} \cup {p \in PlayerIds : ~players[p].is_retained} \cup {Len(players) + 1}

-----------------------------------------------------------------------------
(* The pause test of next_player, mark_sold and mark_unsold *)

\* faulty variant of IsPaused: the flag is not looked at
IsPausedNever(s) == FALSE

\* session.get('auction_paused')
IsPaused(s) == sess[s].auction_paused

-----------------------------------------------------------------------------
(* /next_player *)

NextPlayerBody(s) ==
    LET sr == sess[s]
        auction_round == sr.auction_round
        unsold_players == AuctionPlayersWith(Unsold)
        players_for_next_round_count ==
            Cardinality(AuctionPlayersWith(RoundUnsold(auction_round)))
    IN IF IsPaused(s)
       THEN Redirect(s, "Auction is paused. Resume before proceeding.", "auctions")
       ELSE /\ UNCHANGED <<players, teams, users>>
            /\ IF unsold_players = {}
               THEN IF players_for_next_round_count > 0
                    THEN /\ flash' = "Round complete."
                         /\ sess' = [sess EXCEPT ![s] =
                                [sr EXCEPT !.round_complete = TRUE,
                                           !.auction_started = FALSE,
                                           !.current_player_id = None,
                                           !.pending = "auctions"]]
                    ELSE /\ flash' = "Auction complete!"
                         /\ sess' = [sess EXCEPT ![s] =
                                [sr EXCEPT !.auction_started = FALSE,
                                           !.auction_complete = TRUE,
                                           !.current_player_id = None,
                                           !.pending = "auctions"]]
               ELSE \E random_player \in unsold_players :
                        /\ UNCHANGED flash
                        /\ sess' = [sess EXCEPT ![s] =
                                [sr EXCEPT !.auction_started = TRUE,
                                           !.current_player_id = random_player,
                                           !.round_complete = FALSE,
                                           !.auction_complete = FALSE,
                                           !.pending = "auctions"]]

next_player(s) ==
    /\ CanRequest(s, "next_player")
    /\ Guarded(s, {"Admin"}, NextPlayerBody(s))

-----------------------------------------------------------------------------
(* /auctions: the public auction view *)

auctions(s) ==
    LET sr == sess[s]
        player_id == sr.current_player_id
        stale == /\ sr.auction_started /\ ~sr.round_complete
                 /\ ~sr.auction_complete /\ ~sr.auction_paused
                 /\ player_id # None
                 /\ player_id \in PlayerIds
                 /\ players[player_id].status # Unsold
        next_round_players_count ==
            Cardinality(AuctionPlayersWith(RoundUnsold(sr.auction_round)))
        still_unsold == Cardinality(AuctionPlayersWith(Unsold))
    IN /\ CanRequest(s, "auctions")
       /\ UNCHANGED <<players, teams, users>>
       /\ flash' = IF stale /\ Authenticated(s)
                            /\ CurrentRole(s) \in {"Admin", "Super Admin"}
                   THEN flash ELSE ""
       /\ IF stale
          THEN sess' = [sess EXCEPT ![s] =
                    [sr EXCEPT !.current_player_id = None,
                               !.pending =
                                  IF Authenticated(s)
                                     /\ CurrentRole(s) \in {"Admin", "Super Admin"}
                                  THEN "next_player" ELSE "none"]]
          ELSE IF sr.round_complete /\ next_round_players_count = 0 /\ still_unsold = 0
               THEN sess' = [sess EXCEPT ![s] =
                        [sr EXCEPT !.auction_complete = TRUE,
                                   !.auction_started = FALSE,
                                   !.pending = "none"]]
               ELSE sess' = [sess EXCEPT ![s].pending = "none"]

-----------------------------------------------------------------------------
(* /start_next_round *)

\* faulty variant of next_round_number: the round counter stays
next_round_number_same(auction_round) == auction_round

\* next_round_number = auction_round + 1
next_round_number(auction_round) == auction_round + 1

StartNextRoundBody(s) ==
    LET sr == sess[s]
        auction_round == sr.auction_round
        players_for_next_round == AuctionPlayersWith(RoundUnsold(auction_round))
    IN IF ~sr.round_complete
       THEN Redirect(s, "Cannot start next round until the current one is complete.", "auctions")
       ELSE IF players_for_next_round = {}
       THEN /\ flash' = "No players available for the next round."
            /\ sess' = [sess EXCEPT ![s] =
                    [sr EXCEPT !.auction_complete = TRUE,
                               !.auction_started = FALSE,
                               !.round_complete = FALSE,
                               !.pending = "auctions"]]
            /\ UNCHANGED <<players, teams, users>>
       ELSE /\ auction_round < MaxRound
            /\ players' = [p \in PlayerIds |->
                    IF p \in players_for_next_round
                    THEN [players[p] EXCEPT !.status = Unsold]
                    ELSE players[p]]
            /\ flash' = "Starting Round!"
            /\ sess' = [sess EXCEPT ![s] =
                    [sr EXCEPT !.auction_round = next_round_number(auction_round),
                               !.round_complete = FALSE,
                               !.auction_started = TRUE,
                               !.auction_paused = FALSE,
                               !.pending = "next_player"]]
            /\ UNCHANGED <<teams, users>>

start_next_round(s) ==
    /\ CanRequest(s, "start_next_round")
    /\ Guarded(s, {"Admin"}, StartNextRoundBody(s))

-----------------------------------------------------------------------------
(* /sold/<player_id> *)

\* faulty variant of NotUpForAuction: the player's status is not looked at
NotUpForAuctionNoStatus(s, player_id) ==
    \/ players[player_id].is_retained
    \/ ~sess[s].auction_started
    \/ sess[s].current_player_id # player_id

\* faulty variant of NotUpForAuction: the session's pointer is not compared
NotUpForAuctionAnyPlayer(s, player_id) ==
    \/ players[player_id].is_retained
    \/ players[player_id].status # Unsold
    \/ ~sess[s].auction_started

\* faulty variant of NotUpForAuction: only retention and the running flag are
\* looked at
NotUpForAuctionNoIdentity(s, player_id) ==
    \/ players[player_id].is_retained
    \/ ~sess[s].auction_started

\* the identity check shared by mark_sold and mark_unsold
NotUpForAuction(s, player_id) ==
    \/ players[player_id].is_retained
    \/ players[player_id].status # Unsold
    \/ ~sess[s].auction_started
    \/ sess[s].current_player_id # player_id

\* faulty variant of SoldPlayer: the buying team is not recorded
SoldPlayerNoTeam(player, team_id, sold_price) ==
    [player EXCEPT !.status = Sold, !.sold_price = sold_price]

\* the player row of a sale
SoldPlayer(player, team_id, sold_price) ==
    [player EXCEPT !.status = Sold, !.sold_price = sold_price, !.team_id = team_id]

\* faulty variant of DebitTeam: the player is not counted
DebitTeamNoCount(team, sold_price) ==
    [team EXCEPT !.purse = @ - sold_price,
                 !.purse_spent = @ + sold_price,
                 !.slots_remaining = @ - 1]

\* faulty variant of DebitTeam: the spend mirror is not updated
DebitTeamNoSpend(team, sold_price) ==
    [team EXCEPT !.purse = @ - sold_price,
                 !.players_taken_count = @ + 1,
                 !.slots_remaining = @ - 1]

\* the team row of a sale
DebitTeam(team, sold_price) ==
    [team EXCEPT !.purse = @ - sold_price,
                 !.purse_spent = @ + sold_price,
                 !.players_taken_count = @ + 1,
                 !.slots_remaining = @ - 1]

\* faulty variant of NoSlots: a team with no slot left may still buy
NoSlotsOffByOne(team) == team.slots_remaining < 0

NoSlots(team) == team.slots_remaining <= 0

\* faulty variant of NotEnoughPurse: the price is held against the budget,
\* not against what is left of it
NotEnoughPurseOfBudget(team, sold_price) == InitialPurse < sold_price

NotEnoughPurse(team, sold_price) == team.purse < sold_price

MarkSoldBody(s, player_id, form) ==
    LET sr == sess[s]
        team_id == form.team_id.val
        sold_price == form.sold_price.val
    IN IF IsPaused(s)
       THEN Redirect(s, "Auction is paused. Resume before marking player sold.", "auctions")
       ELSE IF player_id \notin PlayerIds
       THEN NotFound(s)
       ELSE IF NotUpForAuction(s, player_id)
       THEN Redirect(s, "This player is not currently up for auction or action already taken.", "auctions")
       ELSE IF ~(ParsesAsInt(form.team_id) /\ ParsesAsInt(form.sold_price))
       THEN Redirect(s, "Invalid team or price.", "auctions")
       ELSE IF team_id \notin DOMAIN teams
       THEN NotFound(s)
       ELSE IF NoSlots(teams[team_id])
       THEN Redirect(s, "has no remaining slots!", "auctions")
       ELSE IF NotEnoughPurse(teams[team_id], sold_price)
       THEN Redirect(s, "does not have enough purse!", "auctions")
       ELSE /\ players' = [players EXCEPT
                    ![player_id] = SoldPlayer(@, team_id, sold_price)]
            /\ teams' = [teams EXCEPT ![team_id] = DebitTeam(@, sold_price)]
            /\ flash' = "sold"
            /\ sess' = [sess EXCEPT ![s] =
                    [sr EXCEPT !.current_player_id = None,
                               !.pending = "next_player"]]
            /\ UNCHANGED users

mark_sold(s, player_id, form) ==
    /\ CanRequest(s, "sold")
    /\ Guarded(s, {"Admin"}, MarkSoldBody(s, player_id, form))

-----------------------------------------------------------------------------
(* /unsold/<player_id> *)

\* faulty variant of PassedPlayer: the status always names round 1
PassedPlayerRoundOne(player, auction_round) ==
    [player EXCEPT !.status = RoundUnsold(1)]

PassedPlayerStillUnsold(player, auction_round) == player

\* the player row of a pass: player.status = f'Round {auction_round} Unsold'
PassedPlayer(player, auction_round) ==
    [player EXCEPT !.status = RoundUnsold(auction_round)]

MarkUnsoldBody(s, player_id) ==
    LET sr == sess[s]
    IN IF IsPaused(s)
       THEN Redirect(s, "Auction is paused. Resume before marking player unsold.", "auctions")
       ELSE IF player_id \notin PlayerIds
       THEN NotFound(s)
       ELSE IF NotUpForAuction(s, player_id)
       THEN Redirect(s, "This player is not currently up for auction or action already taken.", "auctions")
       ELSE /\ players' = [players EXCEPT
                    ![player_id] = PassedPlayer(@, sr.auction_round)]
            /\ flash' = "marked as unsold"
            /\ sess' = [sess EXCEPT ![s] =
                    [sr EXCEPT !.current_player_id = None,
                               !.pending = "next_player"]]
            /\ UNCHANGED <<teams, users>>

mark_unsold(s, player_id) ==
    /\ CanRequest(s, "unsold")
    /\ Guarded(s, {"Admin"}, MarkUnsoldBody(s, player_id))

-----------------------------------------------------------------------------
(* /restart_auction (POST) *)

\* faulty variant of ResetPlayers: retained players are reset as well
ResetPlayersAll(tbl) ==
    [p \in DOMAIN tbl |->
        [tbl[p] EXCEPT !.status = Unsold, !.sold_price = 0, !.team_id = None]]

\* faulty variant of ResetPlayers: the team link of a player is kept
ResetPlayersKeepTeam(tbl) ==
    [p \in DOMAIN tbl |->
        IF tbl[p].is_retained THEN tbl[p]
        ELSE [tbl[p] EXCEPT !.status = Unsold, !.sold_price = 0]]

\* every non-retained player back to the pool
ResetPlayers(tbl) ==
    [p \in DOMAIN tbl |->
        IF tbl[p].is_retained THEN tbl[p]
        ELSE [tbl[p] EXCEPT !.status = Unsold, !.sold_price = 0, !.team_id = None]]

\* every team's aggregates from its retained players
ResetTeams(teamTbl, tbl) ==
    [t \in DOMAIN teamTbl |-> RetainedStats(teamTbl[t], tbl, t)]

RestartAuctionBody(s, password) ==
    IF Falsy(password) \/ ~CheckPassword(sess[s].user_id, password)
    THEN Render(s)
    ELSE /\ players' = ResetPlayers(players)
         /\ teams' = ResetTeams(teams, players')
         /\ sess' = [sess EXCEPT ![s] =
                [PopAuctionKeys(sess[s]) EXCEPT !.pending = "auctions"]]
         /\ flash' = "Auction has been reset! (Retained players kept)"
         /\ UNCHANGED users

restart_auction(s, password) ==
    /\ CanRequest(s, "restart_auction")
    /\ Guarded(s, {"Admin"}, RestartAuctionBody(s, password))

-----------------------------------------------------------------------------
(* /pause_auction and /resume_auction (POST) *)

\* faulty variant of NotRunning: a pause is taken in any state
NotRunningNever(s) == FALSE

\* not session.get('auction_started') or session.get('auction_complete')
NotRunning(s) == ~sess[s].auction_started \/ sess[s].auction_complete

PauseAuctionBody(s) ==
    IF NotRunning(s)
    THEN Redirect(s, "Auction is not currently running or is already complete.", "auctions")
    ELSE /\ sess' = [sess EXCEPT ![s] =
                [sess[s] EXCEPT !.auction_paused = TRUE, !.pending = "auctions"]]
         /\ flash' = "Auction paused."
         /\ UNCHANGED <<players, teams, users>>

pause_auction(s) ==
    /\ CanRequest(s, "pause_auction")
    /\ Guarded(s, {"Admin"}, PauseAuctionBody(s))

ResumeTargetAdvance(s) == "next_player"

\* where a confirmed resume redirects: back to the auction page while a
\* player is presented, and to next_player only when none is
ResumeTarget(s) ==
    IF sess[s].current_player_id # None THEN "auctions" ELSE "next_player"

ResumeAuctionBody(s, password) ==
    IF ~sess[s].auction_paused
    THEN Redirect(s, "Auction is not paused.", "auctions")
    ELSE IF Falsy(password) \/ ~CheckPassword(sess[s].user_id, password)
    THEN Render(s)
    ELSE /\ sess' = [sess EXCEPT ![s] =
                [sess[s] EXCEPT !.auction_paused = FALSE,
                                !.pending = ResumeTarget(s)]]
         /\ flash' = "Auction resumed."
         /\ UNCHANGED <<players, teams, users>>

resume_auction(s, password) ==
    /\ CanRequest(s, "resume_auction")
    /\ Guarded(s, {"Admin"}, ResumeAuctionBody(s, password))

-----------------------------------------------------------------------------
(* /login (POST) and /logout *)

\* User.query.filter_by(username=username).first(): the id, or None
FindUser(username) ==
    IF \E u \in DOMAIN users : users[u].username = username
    THEN CHOOSE u \in DOMAIN users :
            /\ users[u].username = username
            /\ \A v \in DOMAIN users : users[v].username = username => u <= v
    ELSE None

login(s, username, password) ==
    LET user == FindUser(username)
    IN /\ CanRequest(s, "login")
       /\ IF Authenticated(s)
          THEN Redirect(s, flash, "page")
          ELSE IF user # None /\ CheckPassword(user, password)
          THEN /\ sess' = [sess EXCEPT ![s].user_id = user, ![s].pending = "page"]
               /\ flash' = "Logged in successfully!"
               /\ UNCHANGED <<players, teams, users>>
          ELSE Render(s)

logout(s) ==
    /\ CanRequest(s, "logout")
    /\ IF ~Authenticated(s)
       THEN Redirect(s, "You must be logged in to view this page.", "page")
       ELSE /\ sess' = [sess EXCEPT ![s] =
                    [PopAuctionKeys(sess[s]) EXCEPT !.user_id = None,
                                                    !.pending = "page"]]
            /\ flash' = "You have been logged out."
            /\ UNCHANGED <<players, teams, users>>

\* a page that only shows: home, dashboard, teams, players, the login form
page(s) ==
    /\ CanRequest(s, "page")
    /\ Render(s)

-----------------------------------------------------------------------------
(* The specification *)

\* the store after the seeding and the import of the file, and one fresh
\* browser session (the single-writer deployment)
Init ==
    /\ players = import_players_from_csv(<<>>, SeedTeams, CsvFile)
    /\ teams = recalculate_initial_team_stats(SeedTeams, players)
    /\ users = SeedUsers
    /\ sess = [s \in {1} |-> NewSession]
    /\ flash = ""

Next ==
    \E s \in SessionIds :
        \/ \E cred \in LoginInputs : login(s, cred[1], cred[2])
        \/ logout(s)
        \/ page(s)
        \/ auctions(s)
        \/ next_player(s)
        \/ start_next_round(s)
        \/ \E player_id \in PlayerIdInputs, form \in SellForms :
                mark_sold(s, player_id, form)
        \/ \E player_id \in PlayerIdInputs : mark_unsold(s, player_id)
        \/ \E password \in PasswordInputs : restart_auction(s, password)
        \/ pause_auction(s)
        \/ \E password \in PasswordInputs : resume_auction(s, password)

Spec == Init /\ [][Next]_vars

-----------------------------------------------------------------------------
(* /create_user, /edit_user/<user_id> and /delete_user/<user_id> (POST) *)

\* the roles of the form's select
Roles == {"Captain", "Admin", "Super Admin"}

\* the forms a user is created or edited with: a username in use and a new
\* one, every role, a new password or an empty field, the team of a Captain
UserForms ==
    [username : {"admin", "rookie"}, role : Roles,
     password : {"", "rookiepw"}, team_id : {1}]

\* the user ids an edit or a delete is tried with: every id given out so far
\* and the next one
UserIdInputs == 1..(MaxUserId + 1)

\* the id the database gives the next row
NewUserId ==
    IF DOMAIN users = {} THEN 1
    ELSE 1 + CHOOSE u \in DOMAIN users : \A v \in DOMAIN users : v <= u

\* int(team_id) if team_id and role == 'Captain' else None
UserTeam(role, team_id) == IF team_id # None /\ role = "Captain" THEN team_id ELSE None

\* faulty variant of AdminsCreateOnlyCaptains: an Admin may ask for any role
AdminsCreateAnyRole(current_role, role) == FALSE

\* current_user.role == 'Admin' and role in ['Super Admin', 'Admin']
AdminsCreateOnlyCaptains(current_role, role) ==
    current_role = "Admin" /\ role \in {"Super Admin", "Admin"}

\* faulty variant of TakenByAnother: a rename is never held against the
\* other users
TakenByAnotherNever(user_id, new_username) == FALSE

\* the new username differs from the user's own and another user has it
TakenByAnother(user_id, new_username) ==
    /\ new_username # users[user_id].username
    /\ \E v \in DOMAIN users \ {user_id} : users[v].username = new_username

CreateUserBody(s, form) ==
    IF AdminsCreateOnlyCaptains(CurrentRole(s), form.role)
    THEN Redirect(s, "Admins can only create Captains.", "page")
    ELSE IF FindUser(form.username) # None
    THEN Redirect(s, "Username already exists.", "page")
    ELSE /\ NewUserId <= MaxUserId
         /\ users' = [u \in DOMAIN users \cup {NewUserId} |->
                IF u = NewUserId
                THEN [username |-> form.username, role |-> form.role,
                      password |-> form.password,
                      team_id |-> UserTeam(form.role, form.team_id)]
                ELSE users[u]]
         /\ flash' = "Login created!"
         /\ sess' = [sess EXCEPT ![s].pending = "page"]
         /\ UNCHANGED <<players, teams>>

create_user(s, form) ==
    /\ CanRequest(s, "create_user")
    /\ Guarded(s, {"Admin"}, CreateUserBody(s, form))

EditUserBody(s, user_id, form) ==
    IF user_id \notin DOMAIN users
    THEN NotFound(s)
    ELSE IF TakenByAnother(user_id, form.username)
    THEN Render(s)
    ELSE /\ users' = [users EXCEPT ![user_id] =
                [username |-> form.username, role |-> form.role,
                 password |-> IF form.password # "" THEN form.password
                              ELSE users[user_id].password,
                 team_id |-> UserTeam(form.role, form.team_id)]]
         /\ flash' = "User updated successfully!"
         /\ sess' = [sess EXCEPT ![s].pending = "page"]
         /\ UNCHANGED <<players, teams>>

edit_user(s, user_id, form) ==
    /\ CanRequest(s, "edit_user")
    /\ Guarded(s, {"Super Admin"}, EditUserBody(s, user_id, form))

DeleteUserBody(s, user_id) ==
    IF user_id = sess[s].user_id
    THEN Redirect(s, "You cannot delete your own account.", "page")
    ELSE IF user_id \notin DOMAIN users
    THEN NotFound(s)
    ELSE /\ users' = [u \in DOMAIN users \ {user_id} |-> users[u]]
         /\ flash' = "User deleted successfully."
         /\ sess' = [sess EXCEPT ![s].pending = "page"]
         /\ UNCHANGED <<players, teams>>

delete_user(s, user_id) ==
    /\ CanRequest(s, "delete_user")
    /\ Guarded(s, {"Super Admin"}, DeleteUserBody(s, user_id))

\* the credentials a login is tried with once users are managed: those of
\* LoginInputs and those a created or edited user can have
UserLoginInputs ==
    LoginInputs \cup {<<"rookie", "rookiepw">>, <<"admin", "rookiepw">>}

\* the requests of user management
NextUsers ==
    \E s \in SessionIds :
        \/ \E cred \in UserLoginInputs : login(s, cred[1], cred[2])
        \/ logout(s)
        \/ page(s)
        \/ \E form \in UserForms : create_user(s, form)
        \/ \E user_id \in UserIdInputs, form \in UserForms :
                edit_user(s, user_id, form)
        \/ \E user_id \in UserIdInputs : delete_user(s, user_id)

SpecUsers == Init /\ [][NextUsers]_vars

-----------------------------------------------------------------------------
(* /export_team_excel/<team_id> *)

\* team.players: the players whose owning team is the team
TeamPlayers(team_id) == {p \in PlayerIds : players[p].team_id = team_id}

\* faulty variant of StatusLabel: a bought player is not told from the rest
StatusLabelNoSold(player) ==
    IF player.is_retained THEN "Retained" ELSE "Unsold/Other"

\* "Retained" if player.is_retained else ("Sold" if player.status == 'Sold'
\* else "Unsold/Other")
StatusLabel(player) ==
    IF player.is_retained THEN "Retained"
    ELSE IF player.status = Sold THEN "Sold" ELSE "Unsold/Other"

\* every column the export reads of a player (overall_sr, overall_hs,
\* cpl_2024_wickets, ...) is a column of the Player model
ExportReadable(player) == TRUE

\* order_by(Player.is_retained.desc(), Player.player_name): p comes before q
RosterBefore(p, q) ==
    \/ players[p].is_retained /\ ~players[q].is_retained
    \/ /\ players[p].is_retained = players[q].is_retained
       /\ players[p].player_name < players[q].player_name

\* the rows of the extract, in the order of the query
RECURSIVE players_data(_)
players_data(ids) ==
    IF ids = {} THEN <<>>
    ELSE LET first == CHOOSE p \in ids : \A q \in ids \ {p} : RosterBefore(p, q)
         IN <<[player_name |-> players[first].player_name,
               status_label |-> StatusLabel(players[first]),
               price_label |-> players[first].sold_price]>>
            \o players_data(ids \ {first})

export_team_excel(s, team_id) ==
    /\ CanRequest(s, "export_team_excel")
    /\ IF ~Authenticated(s)
       THEN Redirect(s, "You must be logged in to view this page.", "page")
       ELSE IF team_id \notin DOMAIN teams
       THEN NotFound(s)
       ELSE IF \E p \in TeamPlayers(team_id) : ~ExportReadable(players[p])
       THEN NotFound(s)
       ELSE IF players_data(TeamPlayers(team_id)) = <<>>
       THEN Redirect(s, "has no players to export.", "page")
       ELSE /\ sess' = [sess EXCEPT ![s].download = players_data(TeamPlayers(team_id)),
                                    ![s].pending = "none"]
            /\ UNCHANGED <<players, teams, users, flash>>

\* a file in which team 1 retains one player, named after the auction
\* players, and team 2 none
RosterFile ==
    [i \in 1..NAuction |-> Row(i, "FALSE", "", 700)]
    \o <<Row(NAuction + 1, "TRUE", TeamNames[1], 5000)>>

InitExport ==
    /\ players = import_players_from_csv(<<>>, SeedTeams, RosterFile)
    /\ teams = recalculate_initial_team_stats(SeedTeams, players)
    /\ users = SeedUsers
    /\ sess = [s \in {1} |-> NewSession]
    /\ flash = ""

\* the requests that fill the rosters, and the export
NextExport ==
    \E s \in SessionIds :
        \/ \E cred \in LoginInputs : login(s, cred[1], cred[2])
        \/ logout(s)
        \/ page(s)
        \/ auctions(s)
        \/ next_player(s)
        \/ \E player_id \in PlayerIdInputs, form \in SellForms :
                mark_sold(s, player_id, form)
        \/ \E player_id \in PlayerIdInputs : mark_unsold(s, player_id)
        \/ \E team_id \in 1..(NTeams + 1) : export_team_excel(s, team_id)

SpecExport == InitExport /\ [][NextExport]_vars

-----------------------------------------------------------------------------
(* The import script on files of any content *)

\* the rows a file is made of: three player names, flagged retained or not,
\* naming no team, a seeded team or a team that does not exist
ImportRowInputs ==
    {Row(name, flag, team, 500) :
        name \in 1..3, flag \in {"TRUE", "FALSE"},
        team \in {"", TeamNames[1], "No Such Team"}}

\* the files: one row or two
ImportFiles ==
    {<<r>> : r \in ImportRowInputs}
    \cup {<<r1, r2>> : r1 \in ImportRowInputs, r2 \in ImportRowInputs}

\* python import_players.py on the file: the rows are applied to the Player
\* table as it stands, then the team aggregates are recomputed
import_file(rows) ==
    /\ players' = import_players_from_csv(players, teams, rows)
    /\ teams' = recalculate_initial_team_stats(teams, players')
    /\ UNCHANGED <<users, sess, flash>>

\* the store as seeded, before any import
InitImport ==
    /\ players = <<>>
    /\ teams = SeedTeams
    /\ users = SeedUsers
    /\ sess = [s \in {1} |-> NewSession]
    /\ flash = ""

NextImport == \E rows \in ImportFiles : import_file(rows)

SpecImport == InitImport /\ [][NextImport]_vars

-----------------------------------------------------------------------------
(* Two browsers on the same store *)

\* the same store with two browsers, the Super Admin logged in on one and
\* the Admin on the other (each after a login and its dashboard page)
InitTwoAdmins ==
    /\ players = import_players_from_csv(<<>>, SeedTeams, CsvFile)
    /\ teams = recalculate_initial_team_stats(SeedTeams, players)
    /\ users = SeedUsers
    /\ sess = [s \in {1, 2} |-> [NewSession EXCEPT !.user_id = s]]
    /\ flash = ""

\* the requests of the two admins running the auction; each request is one
\* step, as each request commits in one transaction
NextTwoAdmins ==
    \E s \in SessionIds :
        \/ auctions(s)
        \/ next_player(s)
        \/ start_next_round(s)
        \/ \E player_id \in PlayerIdInputs, form \in SellForms :
                mark_sold(s, player_id, form)
        \/ \E player_id \in PlayerIdInputs : mark_unsold(s, player_id)
        \/ \E password \in PasswordInputs : restart_auction(s, password)

SpecTwoAdmins == InitTwoAdmins /\ [][NextTwoAdmins]_vars

-----------------------------------------------------------------------------
(* The import script run again on the populated store *)

\* python import_players.py: the rows of the same file are applied to the
\* Player table as it stands, then the team aggregates are recomputed; no
\* browser session is involved
reimport ==
    /\ players' = import_players_from_csv(players, teams, CsvFile)
    /\ teams' = recalculate_initial_team_stats(teams, players')
    /\ UNCHANGED <<users, sess, flash>>

NextReimport ==
    \/ Next
    \/ reimport

\* the auction with the import script run at any moment
SpecReimport == Init /\ [][NextReimport]_vars

-----------------------------------------------------------------------------
(* One admin running the rounds of an auction: no pause, reset, logout or
   import *)

\* the admin is logged in (login_user) on the imported store
InitRound ==
    /\ players = import_players_from_csv(<<>>, SeedTeams, CsvFile)
    /\ teams = recalculate_initial_team_stats(SeedTeams, players)
    /\ users = SeedUsers
    /\ sess = [s \in {1} |-> [NewSession EXCEPT !.user_id = 2]]
    /\ flash = ""

\* a sale request that is accepted: the handler reaches its commit and
\* flashes the sale
sell_presented(s) ==
    \E player_id \in PlayerIdInputs, form \in SellForms :
        mark_sold(s, player_id, form) /\ flash' = "sold"

\* a pass request that is accepted
pass_presented(s) ==
    \E player_id \in PlayerIdInputs :
        mark_unsold(s, player_id) /\ flash' = "marked as unsold"

\* the browser follows the redirect a handler answered with
follow_redirect(s) ==
    \/ sess[s].pending = "next_player" /\ next_player(s)
    \/ sess[s].pending = "auctions" /\ auctions(s)

NextRound ==
    \E s \in SessionIds :
        \/ auctions(s)
        \/ next_player(s)
        \/ start_next_round(s)
        \/ \E player_id \in PlayerIdInputs, form \in SellForms :
                mark_sold(s, player_id, form)
        \/ \E player_id \in PlayerIdInputs : mark_unsold(s, player_id)

\* every request is answered (each handler is synchronous and short), the
\* browser follows every redirect, and the admin, whatever else they request,
\* eventually resolves a presented player by an accepted sale or pass
SpecRound ==
    /\ InitRound
    /\ [][NextRound]_vars
    /\ WF_vars(follow_redirect(1))
    /\ SF_vars(sell_presented(1) \/ pass_presented(1))

-----------------------------------------------------------------------------
(* Properties *)

\* the non-retained players
AuctionPool == {p \in DOMAIN players : ~players[p].is_retained}

IsAdmin(s) ==
    /\ sess[s].user_id \in DOMAIN users
    /\ users[sess[s].user_id].role \in {"Admin", "Super Admin"}

\* the player is the one the session presents, and is still to be resolved
Presented(s, player_id) ==
    /\ player_id \in DOMAIN players
    /\ sess[s].auction_started
    /\ sess[s].current_player_id = player_id
    /\ players[player_id].status = [k |-> "Unsold", n |-> 0]
    /\ ~players[player_id].is_retained

WellFormed(form) == form.team_id.kind = "int" /\ form.sold_price.kind = "int"

\* what the specification asks of a sale for it to go through
SellAccepted(s, player_id, form) ==
    /\ IsAdmin(s)
    /\ ~sess[s].auction_paused
    /\ Presented(s, player_id)
    /\ WellFormed(form)
    /\ form.team_id.val \in DOMAIN teams
    /\ teams[form.team_id.val].slots_remaining > 0
    /\ teams[form.team_id.val].purse >= form.sold_price.val

StoreUnchanged == players' = players /\ teams' = teams

StaleMessage == "This player is not currently up for auction or action already taken."

ResetMessage == "Auction has been reset! (Retained players kept)"

FlagsUnchanged == \A s \in DOMAIN sess : AuctionFlags(sess'[s]) = AuctionFlags(sess[s])

\* C1: every team's purse and spend add up to the budget of 10000, and its
\* free slots and players taken add up to the cap of 15, in every state
\* reachable from the import recompute.
C1_LedgerBalanced ==
    \A t \in DOMAIN teams :
        /\ teams[t].purse + teams[t].purse_spent = 10000
        /\ teams[t].slots_remaining + teams[t].players_taken_count = 15

\* a team has bought during the auction and the ledger has moved
C1_Witness ==
    /\ flash = "sold"
    /\ \E p \in AuctionPool :
            players[p].status.k = "Sold" /\ players[p].sold_price = 800

\* C2: a sale that goes through takes exactly the price off the team's purse
\* and one off its free slots, adds the price to its spend and one to its
\* players taken, marks the player Sold at that price for that team, and
\* leaves every other team and player as it was.
C2_SellEffect ==
    [][\A s \in DOMAIN sess, form \in SellForms :
        LET player_id == sess[s].current_player_id
            t == form.team_id.val
            price == form.sold_price.val
        IN SellAccepted(s, player_id, form) /\ mark_sold(s, player_id, form) =>
               /\ teams'[t].purse = teams[t].purse - price
               /\ teams'[t].slots_remaining = teams[t].slots_remaining - 1
               /\ teams'[t].purse_spent = teams[t].purse_spent + price
               /\ teams'[t].players_taken_count = teams[t].players_taken_count + 1
               /\ teams'[t].team_name = teams[t].team_name
               /\ players'[player_id].status.k = "Sold"
               /\ players'[player_id].sold_price = price
               /\ players'[player_id].team_id = t
               /\ DOMAIN teams' = DOMAIN teams /\ DOMAIN players' = DOMAIN players
               /\ \A u \in DOMAIN teams \ {t} : teams'[u] = teams[u]
               /\ \A q \in DOMAIN players \ {player_id} : players'[q] = players[q]
      ]_vars

\* the example of the specification: purse 5000 and 3 slots, sold at 800
C2_Witness ==
    /\ flash = "sold"
    /\ teams[1].purse = 4200 /\ teams[1].slots_remaining = 2
    /\ teams[1].purse_spent = 5800
    /\ \E p \in AuctionPool :
            /\ players[p].status.k = "Sold"
            /\ players[p].sold_price = 800 /\ players[p].team_id = 1

\* C3: a sale whose price exceeds the team's purse, or whose team has no
\* slot left, or whose team or price field is malformed, changes no player,
\* no team and no session auction key.
C3_RejectedSellNoMutation ==
    [][\/ StoreUnchanged /\ FlagsUnchanged
       \/ \A s \in DOMAIN sess, player_id \in PlayerIdInputs, form \in SellForms :
            \/ ~mark_sold(s, player_id, form)
            \/ /\ WellFormed(form)
               /\ form.team_id.val \in DOMAIN teams =>
                    /\ form.sold_price.val <= teams[form.team_id.val].purse
                    /\ teams[form.team_id.val].slots_remaining # 0
      ]_vars

\* a sale of the presented player has just been refused for the purse
C3_Witness ==
    /\ flash = "does not have enough purse!"
    /\ \E s \in DOMAIN sess :
            sess[s].current_player_id # 0 /\ sess[s].auction_started

\* C4: from teams with non-negative purse and free slots, no sequence of
\* sales, at any integer price, drives a purse or a slot count below zero.
C4_NeverNegative ==
    \A t \in DOMAIN teams : teams[t].purse >= 0 /\ teams[t].slots_remaining >= 0

\* a team is full and a further sale to it has just been refused
C4_Witness ==
    /\ flash = "has no remaining slots!"
    /\ \E t \in DOMAIN teams : teams[t].slots_remaining = 0

\* C5: no request other than a reset raises a team's purse; in particular
\* every sale leaves the purse at or below what it was.
C5_PurseNeverRises ==
    [][\A t \in DOMAIN teams :
        teams'[t].purse > teams[t].purse =>
            flash' = ResetMessage
      ]_vars

\* C6: a player is sold or passed at most once per assignment as current
\* player: every sale or pass of a player uses up the session's pointer to
\* that player, only an advance points a session at a player again, and a
\* sale or pass re-submitted for a player the session does not point at is
\* refused as stale with no player or team changed.
C6_OncePerAssignment ==
    [][/\ \A p \in DOMAIN players :
            players[p].status.k = "Unsold" /\ players'[p].status.k # "Unsold" =>
                \E s \in DOMAIN sess :
                    sess[s].current_player_id = p /\ sess'[s].current_player_id = 0
       /\ \A s \in DOMAIN sess :
            sess'[s].current_player_id \notin {0, sess[s].current_player_id} =>
                next_player(s)
       /\ \/ StoreUnchanged
          \/ \A s \in DOMAIN sess, player_id \in PlayerIdInputs :
                sess[s].current_player_id # player_id =>
                    /\ ~mark_unsold(s, player_id)
                    /\ \A form \in SellForms : ~mark_sold(s, player_id, form)
       /\ \/ flash' = StaleMessage
          \/ \A s \in DOMAIN sess :
                IsAdmin(s) /\ ~sess[s].auction_paused =>
                    \A player_id \in (PlayerIdInputs \cap DOMAIN players)
                                        \ {sess[s].current_player_id} :
                        /\ ~mark_unsold(s, player_id)
                        /\ \A form \in SellForms : ~mark_sold(s, player_id, form)
      ]_vars

\* a request for a player already sold has just been refused as stale
C6_Witness ==
    /\ flash = StaleMessage
    /\ \E p \in AuctionPool : players[p].status.k = "Sold"
    /\ \E s \in DOMAIN sess : sess[s].current_player_id = 0

\* C7: a sale or pass for a player who is not exactly the one the session
\* presents (its pointer, while running, plain Unsold, not retained) changes
\* no player, no team and no session auction key.
C7_OnlyPresentedPlayer ==
    [][\/ StoreUnchanged /\ FlagsUnchanged
       \/ \A s \in DOMAIN sess, player_id \in PlayerIdInputs :
            ~Presented(s, player_id) =>
                /\ ~mark_unsold(s, player_id)
                /\ \A form \in SellForms : ~mark_sold(s, player_id, form)
      ]_vars

\* while a player is presented, a request for another has just been refused
C7_Witness ==
    /\ flash = StaleMessage
    /\ \E s \in DOMAIN sess :
            /\ sess[s].auction_started
            /\ sess[s].current_player_id \in AuctionPool
            /\ players[sess[s].current_player_id].status.k = "Unsold"

\* C8: an unpaused advance signals the end of the round or of the auction
\* only when no non-retained player is plain Unsold, and otherwise presents
\* one of the plain Unsold non-retained players.
C8_RoundCompleteIffNoneUnsold ==
    [][\A s \in DOMAIN sess :
        IsAdmin(s) /\ ~sess[s].auction_paused /\ next_player(s) =>
            LET pool == {p \in AuctionPool : players[p].status.k = "Unsold"}
                after == sess'[s]
            IN IF pool = {}
               THEN /\ after.round_complete \/ after.auction_complete
                    /\ ~after.auction_started
                    /\ after.current_player_id = 0
               ELSE /\ after.current_player_id \in pool
                    /\ after.auction_started
                    /\ ~after.round_complete /\ ~after.auction_complete
      ]_vars

\* the round has just been found complete with players parked for the next
C8_Witness ==
    /\ flash = "Round complete."
    /\ \E s \in DOMAIN sess : sess[s].round_complete /\ ~sess[s].auction_started
    /\ \A p \in AuctionPool : players[p].status.k # "Unsold"
    /\ \E p \in AuctionPool : players[p].status.k = "Round Unsold"

\* C9: a session's auction_complete key is set only when no non-retained
\* player is plain Unsold or parked under a 'Round N Unsold' status of any
\* round N.
C9_CompleteOnlyWhenNoneParked ==
    [][\A s \in DOMAIN sess :
        ~sess[s].auction_complete /\ sess'[s].auction_complete =>
            \A p \in DOMAIN players' :
                ~players'[p].is_retained =>
                    players'[p].status.k \notin {"Unsold", "Round Unsold"}
      ]_vars

\* C10: a reset applied to the outcome of a reset changes nothing: the
\* players, the teams and the session's auction keys a reset leaves are
\* those a second reset would leave.
C10_ResetIdempotent ==
    [][\A s \in DOMAIN sess :
        flash' = ResetMessage /\ (\E pw \in PasswordInputs : restart_auction(s, pw)) =>
            /\ ResetPlayers(players') = players'
            /\ ResetTeams(teams', ResetPlayers(players')) = teams'
            /\ AuctionFlags(PopAuctionKeys(sess'[s])) = AuctionFlags(sess'[s])
      ]_vars

\* a reset has just been applied
C10_Witness ==
    /\ flash = ResetMessage
    /\ \A p \in AuctionPool : players[p].status.k = "Unsold" /\ players[p].team_id = 0
    /\ teams[1].purse = 5000 /\ teams[1].slots_remaining = 3

\* the confirmation password of the request is the acting user's own
RightPassword(s, password) ==
    /\ password \notin {"<missing>", ""}
    /\ password = users[sess[s].user_id].password

\* C11: a reset confirmed with the right password leaves every non-retained
\* player Unsold with price 0 and no team, every retained player as it was,
\* every team with players_taken_count = the number of its retained
\* players, slots_remaining = 15 less that number, purse_spent = the sum of
\* their recorded prices and purse = 10000 less that sum, and the acting
\* session with every auction key cleared.
C11_ResetResult ==
    [][\A s \in DOMAIN sess, password \in PasswordInputs :
        IsAdmin(s) /\ RightPassword(s, password) /\ restart_auction(s, password) =>
            /\ DOMAIN players' = DOMAIN players
            /\ \A p \in DOMAIN players :
                    IF players[p].is_retained
                    THEN players'[p] = players[p]
                    ELSE /\ players'[p].status = [k |-> "Unsold", n |-> 0]
                         /\ players'[p].sold_price = 0
                         /\ players'[p].team_id = 0
                         /\ players'[p].player_name = players[p].player_name
                         /\ ~players'[p].is_retained
            /\ DOMAIN teams' = DOMAIN teams
            /\ \A t \in DOMAIN teams :
                    LET kept == {p \in DOMAIN players :
                                    players[p].is_retained /\ players[p].team_id = t}
                        cost == SumPrices(players, kept)
                    IN /\ teams'[t].players_taken_count = Cardinality(kept)
                       /\ teams'[t].slots_remaining = 15 - Cardinality(kept)
                       /\ teams'[t].purse_spent = cost
                       /\ teams'[t].purse = 10000 - cost
                       /\ teams'[t].team_name = teams[t].team_name
            /\ AuctionFlags(sess'[s]) = <<FALSE, 0, 1, FALSE, FALSE, FALSE>>
      ]_vars

\* a reset has just put back the team whose retained players cost 1000 and
\* 1500 (and nothing for the others): purse 7500, spent 2500
C11_Witness ==
    /\ flash = ResetMessage
    /\ teams[2].purse = 7500 /\ teams[2].purse_spent = 2500
    /\ teams[2].players_taken_count = NRetained2
    /\ teams[2].slots_remaining = max_slots - NRetained2
    /\ \A s \in DOMAIN sess : AuctionFlags(sess[s]) = <<FALSE, 0, 1, FALSE, FALSE, FALSE>>

\* C12: no request of the auction makes a retained player a session's
\* current player, changes a retained player's row (status, price, team),
\* or changes the is_retained flag of any player.
C12_RetainedStayOut ==
    [][/\ \A s \in DOMAIN sess :
            sess'[s].current_player_id \in DOMAIN players' =>
                ~players'[sess'[s].current_player_id].is_retained
       /\ DOMAIN players' = DOMAIN players
       /\ \A p \in DOMAIN players :
            /\ players'[p].is_retained = players[p].is_retained
            /\ players[p].is_retained => players'[p] = players[p]
      ]_vars

\* the auction has run to its end with a sale, and every retained player is
\* still Retained with its team
C12_Witness ==
    /\ \E s \in DOMAIN sess : sess[s].auction_complete
    /\ \E p \in AuctionPool : players[p].status.k = "Sold"
    /\ \A p \in DOMAIN players \ AuctionPool :
            players[p].status.k = "Retained" /\ players[p].team_id # 0

\* C13: in every reachable state, the import script being run again at any
\* moment included, every player whose status is Sold has an owning team.
C13_SoldHasTeam ==
    \A p \in DOMAIN players :
        players[p].status.k = "Sold" => players[p].team_id \in DOMAIN teams

\* C14: while a session's paused flag is set, an advance, a sale and a pass
\* requested by that session change no session's current-player pointer, no
\* player and no team, and leave the session paused.
C14_PausedRefuses ==
    [][\/ /\ StoreUnchanged
          /\ \A s \in DOMAIN sess :
                /\ sess'[s].current_player_id = sess[s].current_player_id
                /\ sess'[s].auction_paused = sess[s].auction_paused
       \/ \A s \in DOMAIN sess :
            sess[s].auction_paused =>
                /\ ~next_player(s)
                /\ \A player_id \in PlayerIdInputs :
                        /\ ~mark_unsold(s, player_id)
                        /\ \A form \in SellForms : ~mark_sold(s, player_id, form)
      ]_vars

\* a sale has just been refused because the session is paused, with the
\* presented player still Unsold
C14_Witness ==
    /\ flash = "Auction is paused. Resume before marking player sold."
    /\ \E s \in DOMAIN sess :
            /\ sess[s].auction_paused
            /\ sess[s].current_player_id \in AuctionPool
            /\ players[sess[s].current_player_id].status.k = "Unsold"

C16_RefusedNoMutation ==
    [][\/ StoreUnchanged /\ FlagsUnchanged
       \/ \A s \in DOMAIN sess :
            /\ sess[s].user_id \in DOMAIN users /\ ~IsAdmin(s) =>
                /\ ~next_player(s)
                /\ ~start_next_round(s)
                /\ ~pause_auction(s)
                /\ \A password \in PasswordInputs :
                        ~resume_auction(s, password) /\ ~restart_auction(s, password)
                /\ \A player_id \in PlayerIdInputs :
                        /\ ~mark_unsold(s, player_id)
                        /\ \A form \in SellForms : ~mark_sold(s, player_id, form)
            /\ IsAdmin(s) =>
                \A password \in PasswordInputs :
                    ~RightPassword(s, password) =>
                        ~resume_auction(s, password) /\ ~restart_auction(s, password)
      ]_vars

\* a Captain's request has just been turned away for want of permission
\* while the store holds the result of a sale
C16_Witness ==
    /\ flash = "You do not have permission to access this page."
    /\ \E s \in DOMAIN sess :
            /\ sess[s].user_id \in DOMAIN users
            /\ users[sess[s].user_id].role = "Captain"
    /\ \E p \in AuctionPool : players[p].status.k = "Sold"

\* C17: with two admin sessions on one store, each request being one atomic
\* step, a player becomes Sold only from plain Unsold and with exactly one
\* team debited by its price and one slot; a Sold row is not touched again
\* by anything but a reset; a team's row changes only in such a sale or a
\* reset; and a sale or pass that either session submits for a player who
\* is no longer plain Unsold is refused as stale with no player or team
\* changed.
C17_SoldOnceTwoAdmins ==
    [][/\ \A p \in DOMAIN players :
            /\ players[p].status.k # "Sold" /\ players'[p].status.k = "Sold" =>
                /\ players[p].status.k = "Unsold"
                /\ \E t \in DOMAIN teams :
                        /\ players'[p].team_id = t
                        /\ teams'[t].purse = teams[t].purse - players'[p].sold_price
                        /\ teams'[t].slots_remaining = teams[t].slots_remaining - 1
                        /\ \A u \in DOMAIN teams \ {t} : teams'[u] = teams[u]
                /\ \A q \in DOMAIN players \ {p} : players'[q] = players[q]
            /\ players[p].status.k = "Sold" /\ players'[p] # players[p] =>
                flash' = ResetMessage
       /\ \A t \in DOMAIN teams :
            teams'[t] # teams[t] =>
                \/ flash' = ResetMessage
                \/ \E p \in DOMAIN players :
                        /\ players[p].status.k = "Unsold"
                        /\ players'[p].status.k = "Sold" /\ players'[p].team_id = t
       /\ \/ StoreUnchanged /\ flash' = StaleMessage
          \/ \A s \in DOMAIN sess :
                IsAdmin(s) /\ ~sess[s].auction_paused =>
                    \A player_id \in {p \in AuctionPool : players[p].status.k # "Unsold"} :
                        /\ ~mark_unsold(s, player_id)
                        /\ \A form \in SellForms : ~mark_sold(s, player_id, form)
      ]_vars

\* one session has sold the player both were presenting, and the other
\* session's request for that player has just been refused as stale
C17_Witness ==
    /\ flash = StaleMessage
    /\ \E p \in AuctionPool, s \in DOMAIN sess :
            /\ players[p].status.k = "Sold"
            /\ sess[s].auction_started
            /\ sess[s].current_player_id = p

\* the accounts that hold the Admin or the Super Admin role
Privileged(tbl) == {u \in DOMAIN tbl : tbl[u].role \in {"Admin", "Super Admin"}}

\* C18: an account comes to hold the Admin or Super Admin role only by a
\* request of a logged-in Super Admin; a create_user by an Admin asking for
\* the role Admin or Super Admin creates no user; an edit_user by anyone
\* who is not Super Admin, and a create_user or edit_user by a Captain,
\* change no user.
C18_OnlySuperAdminMakesAdmins ==
    [][\/ users' = users
       \/ /\ Privileged(users') \subseteq Privileged(users) \/
                \E s \in DOMAIN sess :
                    /\ sess[s].user_id \in DOMAIN users
                    /\ users[sess[s].user_id].role = "Super Admin"
          /\ \A s \in DOMAIN sess :
                sess[s].user_id \in DOMAIN users =>
                    LET role == users[sess[s].user_id].role
                    IN \A form \in UserForms :
                        /\ role = "Admin" /\ form.role \in {"Admin", "Super Admin"} =>
                                ~create_user(s, form)
                        /\ role = "Captain" => ~create_user(s, form)
                        /\ role # "Super Admin" =>
                                \A user_id \in UserIdInputs : ~edit_user(s, user_id, form)
      ]_vars

\* an Admin's request for another Admin or Super Admin has just been turned
\* down
C18_Witness ==
    /\ flash = "Admins can only create Captains."
    /\ \E s \in DOMAIN sess :
            /\ sess[s].user_id \in DOMAIN users
            /\ users[sess[s].user_id].role = "Admin"

\* C19: no two users share a username after any request; a create_user with
\* a username some user holds, and an edit_user renaming a user to a
\* username another user holds, leave the user table unchanged.
C19_UsernamesUnique ==
    [][/\ \A u, v \in DOMAIN users' :
            u # v => users'[u].username # users'[v].username
       /\ \/ users' = users
          \/ \A s \in DOMAIN sess, form \in UserForms :
                /\ (\E v \in DOMAIN users : users[v].username = form.username) =>
                        ~create_user(s, form)
                /\ \A user_id \in DOMAIN users :
                        (\E v \in DOMAIN users \ {user_id} :
                                users[v].username = form.username) =>
                            ~edit_user(s, user_id, form)
      ]_vars

\* a create_user for a username in use has just been turned down, in a
\* table where a user has been created or renamed
C19_Witness ==
    /\ flash = "Username already exists."
    /\ \E u \in DOMAIN users : users[u].username = "rookie"
    /\ \A u, v \in DOMAIN users : u # v => users[u].username # users[v].username

\* C20: a pass of the presented player by a session in round r sets that
\* player's status to 'Round r Unsold', leaves its price and team, every
\* other player and every team as they were, and hands over to the advance,
\* which presents a plain Unsold non-retained player or signals the end of
\* the round or of the auction.
C20_PassEffect ==
    [][\A s \in DOMAIN sess :
        LET player_id == sess[s].current_player_id
            r == sess[s].auction_round
        IN /\ IsAdmin(s) /\ ~sess[s].auction_paused /\ Presented(s, player_id)
                /\ mark_unsold(s, player_id) =>
                /\ players'[player_id].status = [k |-> "Round Unsold", n |-> r]
                /\ players'[player_id].sold_price = players[player_id].sold_price
                /\ players'[player_id].team_id = players[player_id].team_id
                /\ players'[player_id].is_retained = players[player_id].is_retained
                /\ DOMAIN players' = DOMAIN players
                /\ \A q \in DOMAIN players \ {player_id} : players'[q] = players[q]
                /\ teams' = teams
                /\ sess'[s].current_player_id = 0
                /\ sess'[s].auction_round = r
                /\ sess'[s].pending = "next_player"
           /\ IsAdmin(s) /\ sess[s].pending = "next_player"
                /\ flash = "marked as unsold" /\ next_player(s) =>
                \/ /\ sess'[s].current_player_id \in AuctionPool
                   /\ players[sess'[s].current_player_id].status.k = "Unsold"
                   /\ sess'[s].auction_started
                \/ /\ sess'[s].current_player_id = 0
                   /\ ~sess'[s].auction_started
                   /\ sess'[s].round_complete \/ sess'[s].auction_complete
      ]_vars

\* a player has just been passed in round 2
C20_Witness ==
    /\ flash = "marked as unsold"
    /\ \E p \in AuctionPool :
            /\ players[p].status = [k |-> "Round Unsold", n |-> 2]
            /\ players[p].sold_price = 0 /\ players[p].team_id = 0
    /\ \E s \in DOMAIN sess : sess[s].auction_round = 2

\* C21: an export of a team that owns no player leaves the browser without
\* a new file and flashes that there is nothing to export; an export of a
\* team that owns players delivers a file with exactly one row per player
\* of the team, labelled Retained for a retained player, else Sold for a
\* player whose status is Sold, else Unsold/Other; neither changes the
\* store.
C21_ExportRows ==
    [][\A s \in DOMAIN sess, team_id \in DOMAIN teams :
        sess[s].user_id \in DOMAIN users /\ export_team_excel(s, team_id) =>
            LET roster == {p \in DOMAIN players : players[p].team_id = team_id}
                file == sess'[s].download
            IN /\ StoreUnchanged
               /\ IF roster = {}
                  THEN /\ file = sess[s].download
                       /\ flash' = "has no players to export."
                  ELSE /\ Len(file) = Cardinality(roster)
                       /\ flash' = flash
                       /\ \A p \in roster :
                            \E i \in 1..Len(file) :
                                /\ file[i].player_name = players[p].player_name
                                /\ file[i].status_label =
                                     IF players[p].is_retained THEN "Retained"
                                     ELSE IF players[p].status.k = "Sold" THEN "Sold"
                                     ELSE "Unsold/Other"
      ]_vars

\* the browser holds a file with a Retained and a Sold row, and an export
\* of the team without players has just been answered with the message
C21_Witness ==
    /\ flash = "has no players to export."
    /\ \E s \in DOMAIN sess :
            /\ \E i \in 1..Len(sess[s].download) :
                    sess[s].download[i].status_label = "Retained"
            /\ \E i \in 1..Len(sess[s].download) :
                    sess[s].download[i].status_label = "Sold"
    /\ \E t \in DOMAIN teams : \A p \in DOMAIN players : players[p].team_id # t

\* C22: after an import every player marked retained has an owning team,
\* and the teams' players_taken_count add up to the number of retained
\* players.
C22_RetainedHaveTeam ==
    /\ \A p \in DOMAIN players :
            players[p].is_retained => players[p].team_id \in DOMAIN teams
    /\ \A p \in DOMAIN players :
            players[p].is_retained =>
                \E t \in DOMAIN teams :
                    /\ players[p].team_id = t
                    /\ teams[t].players_taken_count >= 1

\* the players whose owning team is t
OwnedBy(t) == {p \in DOMAIN players : players[p].team_id = t}

\* C23: in every state each team's players_taken_count is the number of
\* players whose owning team it is (retained and bought), and its
\* purse_spent is the sum of their sold_price.
C23_AggregatesMatchRoster ==
    \A t \in DOMAIN teams :
        /\ teams[t].players_taken_count = Cardinality(OwnedBy(t))
        /\ teams[t].purse_spent = SumPrices(players, OwnedBy(t))

\* a team owns a bought player beside its retained ones
C23_Witness ==
    \E t \in DOMAIN teams :
        /\ \E p \in OwnedBy(t) : ~players[p].is_retained /\ players[p].sold_price = 800
        /\ \E p \in OwnedBy(t) : players[p].is_retained
        /\ teams[t].players_taken_count = Cardinality(OwnedBy(t))

\* C24: a paused session is running (auction_started set, round_complete
\* and auction_complete unset); the paused key is set only from a running
\* session that is not complete; it is cleared only by a logout or by a
\* resume or a reset confirmed with the acting admin's password; and a
\* start_next_round of a paused session leaves it paused.
C24_PausedImpliesRunning ==
    [][\A s \in DOMAIN sess :
        /\ sess'[s].auction_paused =>
                /\ sess'[s].auction_started
                /\ ~sess'[s].round_complete /\ ~sess'[s].auction_complete
        /\ ~sess[s].auction_paused /\ sess'[s].auction_paused =>
                sess[s].auction_started /\ ~sess[s].auction_complete
        /\ sess[s].auction_paused /\ ~sess'[s].auction_paused =>
                \/ logout(s)
                \/ /\ IsAdmin(s)
                   /\ \E password \in PasswordInputs :
                        /\ RightPassword(s, password)
                        /\ resume_auction(s, password) \/ restart_auction(s, password)
        /\ sess[s].auction_paused /\ start_next_round(s) => sess'[s].auction_paused
      ]_vars

\* a start_next_round of a paused session has just been refused, and the
\* session is still paused and running
C24_Witness ==
    /\ flash = "Cannot start next round until the current one is complete."
    /\ \E s \in DOMAIN sess :
            /\ sess[s].auction_paused /\ sess[s].auction_started
            /\ ~sess[s].round_complete /\ ~sess[s].auction_complete

\* C25: in every state of a session at most one of auction_started,
\* round_complete and auction_complete is set, and the current-player
\* pointer is set only while auction_started is.  Holds with one session;
\* with two admin sessions the auctions page sets auction_complete on a
\* session whose round_complete is still set (app.py:216-224).
C25_FlagsExclusive ==
    \A s \in DOMAIN sess :
        /\ ~(sess[s].auction_started /\ sess[s].round_complete)
        /\ ~(sess[s].auction_started /\ sess[s].auction_complete)
        /\ ~(sess[s].round_complete /\ sess[s].auction_complete)
        /\ sess[s].current_player_id # 0 => sess[s].auction_started

\* the session's round counter and current-player pointer are as before
PositionUnchanged(s) ==
    /\ sess'[s].auction_round = sess[s].auction_round
    /\ sess'[s].current_player_id = sess[s].current_player_id

\* C26: the step that pauses a session, every step taken while it stays
\* paused, and the step that resumes it with the acting admin's password all
\* leave every player, every team, the session's round counter and its
\* current-player pointer unchanged; a resume with a player presented
\* redirects to the auction page, not to next_player, and the page then
\* still shows that player.
C26_PauseResumeFrame ==
    [][\A s \in DOMAIN sess :
        /\ sess'[s].auction_paused
              => StoreUnchanged /\ PositionUnchanged(s)
        /\ sess[s].auction_paused /\ ~sess'[s].auction_paused
           /\ flash' = "Auction resumed."
              => /\ StoreUnchanged /\ PositionUnchanged(s)
                 /\ sess[s].current_player_id # None
                        => sess'[s].pending = "auctions"
        /\ flash = "Auction resumed." /\ sess[s].pending = "auctions"
              => /\ StoreUnchanged /\ PositionUnchanged(s)
                 /\ Presented(s, sess'[s].current_player_id) ]_vars

C26_Witness ==
    /\ flash = "Auction resumed."
    /\ \E s \in DOMAIN sess :
            /\ ~sess[s].auction_paused
            /\ sess[s].pending = "auctions"
            /\ Presented(s, sess[s].current_player_id)
            /\ \E p \in AuctionPool : players[p].status.k = "Sold"

\* C27: every step that points a session at a player points it at a
\* non-retained player whose status is plain Unsold when selected, never at
\* a Sold or 'Round N Unsold' one; and a player that has been sold or passed
\* becomes plain Unsold again only by the start_next_round of a session in
\* the round it is parked under, or by a password-confirmed reset.
C27_OnlyUnsoldPresented ==
    [][/\ \A s \in DOMAIN sess :
            LET chosen == sess'[s].current_player_id
            IN chosen # 0 /\ chosen # sess[s].current_player_id
                  => /\ chosen \in DOMAIN players
                     /\ ~players[chosen].is_retained
                     /\ players[chosen].status = [k |-> "Unsold", n |-> 0]
                     /\ players'[chosen] = players[chosen]
       /\ \/ players' = players
          \/ \A p \in DOMAIN players :
                (/\ p \in DOMAIN players'
                 /\ players[p].status.k \in {"Sold", "Round Unsold"}
                 /\ players'[p].status.k = "Unsold")
                   => \E s \in DOMAIN sess :
                        \/ /\ start_next_round(s)
                           /\ sess[s].round_complete
                           /\ players[p].status = RoundUnsold(sess[s].auction_round)
                        \/ \E password \in PasswordInputs :
                              RightPassword(s, password) /\ restart_auction(s, password)
      ]_vars

\* a player is presented while another one is parked under the session's
\* round
C27_Witness ==
    \E s \in DOMAIN sess :
        /\ Presented(s, sess[s].current_player_id)
        /\ sess[s].pending = "none"
        /\ \E q \in AuctionPool : players[q].status = RoundUnsold(sess[s].auction_round)

\* the non-retained players still plain Unsold in table tbl
UnsoldIn(tbl) ==
    {p \in DOMAIN tbl : ~tbl[p].is_retained /\ tbl[p].status = [k |-> "Unsold", n |-> 0]}

\* C28: with one unpaused session whose admin keeps resolving presented
\* players by accepted sales or passes, and no reset or import, every
\* accepted sale or pass leaves exactly one plain Unsold non-retained player
\* fewer, a running session eventually reaches round_complete or
\* auction_complete, and once every non-retained player is Sold the session
\* reaches auction_complete.
C28_RoundTerminates ==
    /\ [][\A s \in DOMAIN sess :
            sell_presented(s) \/ pass_presented(s)
                => Cardinality(UnsoldIn(players')) < Cardinality(UnsoldIn(players))
         ]_vars
    /\ sess[1].auction_started
            ~> (sess[1].round_complete \/ sess[1].auction_complete)
    /\ (\A p \in DOMAIN players : ~players[p].is_retained => players[p].status.k = "Sold")
            ~> sess[1].auction_complete

\* the auction is complete in its second round, every player sold
C28_Witness ==
    /\ sess[1].auction_complete
    /\ sess[1].auction_round = 2
    /\ \A p \in DOMAIN players : ~players[p].is_retained => players[p].status.k = "Sold"

=============================================================================
